---- MODULE Spec2Model ----
(***************************************************************************)
(* Pod-security-policy-template propagation controller                    *)
(* (pkg/controllers/user/rbac/podsecuritypolicy/template.go).              *)
(*                                                                         *)
(* The model holds the object store (templates, policies, cluster roles),  *)
(* the informer caches the two indexers read, and one Lifecycle invocation *)
(* per template.  Every API call of Updated and Remove is one step, so     *)
(* invocations for different templates and the environment interleave      *)
(* between calls.                                                          *)
(***************************************************************************)
EXTENDS Integers, Sequences, FiniteSets, TLC

VARIABLES
    verInfo,    \* template history: resourceVersion -> the template object written at it
    tmpl,       \* template name -> its current resourceVersion in the store, 0 = absent
    delivered,  \* template name -> resourceVersion of the last snapshot handed to the handler
    pstore,     \* policy name -> PodSecurityPolicy in the API server
    pcache,     \* policy name -> PodSecurityPolicy in the informer cache
    prv,        \* policy name -> last resourceVersion the API server gave the name
    rstore,     \* cluster role name -> parent annotation in the API server
    rcache,     \* cluster role name -> parent annotation in the informer cache
    creates,    \* number of derived objects created by the external collaborator
    invokes,    \* number of handler invocations so far, or Unbounded when they are not counted
    inv         \* template name -> the handler invocation for it

vars == <<verInfo, tmpl, delivered, pstore, pcache, prv, rstore, rcache, creates, invokes, inv>>

----------------------------------------------------------------------------
\* Bounds of the model

MaxVersion == 4
MaxCreates == 2
MaxInvokes == 2

\* The value of invokes when invocations are not counted
Unbounded == MaxInvokes + 1

Templates == {"t1", "t2"}
PolicyNames == {"p1", "p2"}
RoleNames == {"r1"}
SpecVals == {"privileged", "restricted"}

\* The empty annotation value / a missing object
NoParent == ""
NoRole == "-"
NoVer == [name |-> "", spec |-> "", deleting |-> FALSE]
NoPolicy == [kind |-> "", name |-> "", parent |-> NoParent, spec |-> "", srcVer |-> 0, rv |-> 0]
NoTemplate == [name |-> "", spec |-> "", resourceVersion |-> 0]

Idle == [op |-> "none", pc |-> "idle", obj |-> NoTemplate,
         looked |-> <<>>, idx |-> 0, rlooked |-> <<>>, ridx |-> 0,
         result |-> "none", cause |-> "none", ret |-> "none",
         writes |-> 0, deleted |-> {}, prev |-> "none", repeat |-> FALSE]

\* All orderings of a finite set, as sequences (ByIndex returns the set in no defined order)
Orderings(S) ==
    {s \in [1..Cardinality(S) -> S] : \A i, j \in 1..Cardinality(S) : i # j => s[i] # s[j]}

Range(s) == {s[i] : i \in 1..Len(s)}

----------------------------------------------------------------------------
\* The two index functions and the indexer lookup

\* An index function without the test for the empty annotation
policyByPSPTParentAnnotationAnyKey(obj) ==
    IF obj.kind # "PodSecurityPolicy" THEN <<>> ELSE <<obj.parent>>

\* policy, ok := obj.(*PodSecurityPolicy); no key when !ok or the parent annotation is ""
policyByPSPTParentAnnotation(obj) ==
    IF obj.kind # "PodSecurityPolicy" \/ obj.parent = "" THEN <<>> ELSE <<obj.parent>>

\* clusterRole, ok := obj.(*ClusterRole); no key when !ok or the parent annotation is ""
clusterRoleByPSPTName(obj) ==
    IF obj.kind # "ClusterRole" \/ obj.parent = "" THEN <<>> ELSE <<obj.parent>>

\* The cluster role object the informer cache holds under name r
CachedRole(r) == [kind |-> "ClusterRole", name |-> r, parent |-> rcache[r]]

\* A lookup that returns the cached policies of every parent
PolicyByIndexAll(key) ==
    {pcache[p] : p \in {q \in PolicyNames :
        pcache[q] # NoPolicy /\ policyByPSPTParentAnnotation(pcache[q]) # <<>>}}

\* policyIndexer.ByIndex(policyByPSPTParentAnnotationIndex, key): the cached policies
\* whose index keys contain key
PolicyByIndex(key) ==
    {pcache[p] : p \in {q \in PolicyNames :
        pcache[q] # NoPolicy /\ key \in Range(policyByPSPTParentAnnotation(pcache[q]))}}

\* A lookup that returns the cached cluster roles of every parent
RoleByIndexAll(key) ==
    {r \in RoleNames : rcache[r] # NoRole /\ clusterRoleByPSPTName(CachedRole(r)) # <<>>}

\* clusterRoleIndexer.ByIndex(clusterRoleByPSPTNameIndex, key): names of the cached roles
RoleByIndex(key) ==
    {r \in RoleNames : rcache[r] # NoRole /\ key \in Range(clusterRoleByPSPTName(CachedRole(r)))}

----------------------------------------------------------------------------
\* Template objects

NextVersion == CHOOSE v \in 1..MaxVersion : verInfo[v] = NoVer /\ \A w \in 1..(v-1) : verInfo[w] # NoVer
VersionsLeft == \E v \in 1..MaxVersion : verInfo[v] = NoVer

Live(t) == tmpl[t] # 0 /\ ~verInfo[tmpl[t]].deleting
Deleting(t) == tmpl[t] # 0 /\ verInfo[tmpl[t]].deleting

Snapshot(v) == [name |-> verInfo[v].name, spec |-> verInfo[v].spec, resourceVersion |-> v]

Init ==
    /\ verInfo = [v \in 1..MaxVersion |->
                    IF v = 1 THEN [name |-> "t1", spec |-> "privileged", deleting |-> FALSE]
                    ELSE IF v = 2 THEN [name |-> "t2", spec |-> "privileged", deleting |-> FALSE]
                    ELSE NoVer]
    /\ tmpl = [t \in Templates |-> IF t = "t1" THEN 1 ELSE 2]
    /\ delivered = [t \in Templates |-> IF t = "t1" THEN 1 ELSE 2]
    /\ pstore = [p \in PolicyNames |-> NoPolicy]
    /\ pcache = [p \in PolicyNames |-> NoPolicy]
    /\ prv = [p \in PolicyNames |-> 0]
    /\ rstore = [r \in RoleNames |-> NoRole]
    /\ rcache = [r \in RoleNames |-> NoRole]
    /\ creates = 0
    /\ invokes = 0
    /\ inv = [t \in Templates |-> Idle]

----------------------------------------------------------------------------
\* The environment: template edits, the collaborator that creates derived objects,
\* the informers that refresh the caches

\* An edit of the template's spec
TemplateEdit(t, s) ==
    /\ Live(t) /\ VersionsLeft /\ s # verInfo[tmpl[t]].spec
    /\ verInfo' = [verInfo EXCEPT ![NextVersion] = [name |-> t, spec |-> s, deleting |-> FALSE]]
    /\ tmpl' = [tmpl EXCEPT ![t] = NextVersion]
    /\ UNCHANGED <<delivered, pstore, pcache, prv, rstore, rcache, creates, invokes, inv>>

\* Deletion sets the deletion timestamp; the object stays until Remove has succeeded
TemplateDelete(t) ==
    /\ Live(t) /\ VersionsLeft
    /\ verInfo' = [verInfo EXCEPT ![NextVersion] =
                     [name |-> t, spec |-> verInfo[tmpl[t]].spec, deleting |-> TRUE]]
    /\ tmpl' = [tmpl EXCEPT ![t] = NextVersion]
    /\ UNCHANGED <<delivered, pstore, pcache, prv, rstore, rcache, creates, invokes, inv>>

TemplateCreate(t, s) ==
    /\ tmpl[t] = 0 /\ VersionsLeft
    /\ verInfo' = [verInfo EXCEPT ![NextVersion] = [name |-> t, spec |-> s, deleting |-> FALSE]]
    /\ tmpl' = [tmpl EXCEPT ![t] = NextVersion]
    /\ UNCHANGED <<delivered, pstore, pcache, prv, rstore, rcache, creates, invokes, inv>>

\* The lifecycle adapter drops the finalizer once Remove has returned without error
Finalize(t) ==
    /\ Deleting(t)
    /\ inv[t].pc = "done" /\ inv[t].op = "Remove" /\ inv[t].result = "ok"
    /\ inv[t].obj.resourceVersion = tmpl[t]
    /\ tmpl' = [tmpl EXCEPT ![t] = 0]
    /\ UNCHANGED <<verInfo, delivered, pstore, pcache, prv, rstore, rcache, creates, invokes, inv>>

\* The policy the collaborator generates from version v of template parent: it mirrors
\* the template's spec and records the version; v = 0 is a policy made without a
\* template, which carries no annotation
GeneratedFrom(p, parent, v) ==
    [kind |-> "PodSecurityPolicy", name |-> p, parent |-> parent,
     spec |-> IF v = 0 THEN "privileged" ELSE verInfo[v].spec,
     srcVer |-> v, rv |-> prv[p] + 1]

ExternalCreatePolicy(p, parent, v) ==
    /\ pstore[p] = NoPolicy /\ creates < MaxCreates
    /\ IF parent = NoParent THEN v = 0
       ELSE Live(parent) /\ v # 0 /\ verInfo[v].name = parent /\ ~verInfo[v].deleting
    /\ pstore' = [pstore EXCEPT ![p] = GeneratedFrom(p, parent, v)]
    /\ prv' = [prv EXCEPT ![p] = prv[p] + 1]
    /\ creates' = creates + 1
    /\ UNCHANGED <<verInfo, tmpl, delivered, pcache, rstore, rcache, invokes, inv>>

ExternalCreateRole(r, parent) ==
    /\ rstore[r] = NoRole /\ creates < MaxCreates
    /\ parent # NoParent => Live(parent)
    /\ rstore' = [rstore EXCEPT ![r] = parent]
    /\ creates' = creates + 1
    /\ UNCHANGED <<verInfo, tmpl, delivered, pstore, pcache, prv, rcache, invokes, inv>>

\* The policy informer catches up with the API server
PolicyCacheSync ==
    /\ pcache # pstore
    /\ pcache' = pstore
    /\ UNCHANGED <<verInfo, tmpl, delivered, pstore, prv, rstore, rcache, creates, invokes, inv>>

\* The cluster role informer catches up with the API server
RoleCacheSync ==
    /\ rcache # rstore
    /\ rcache' = rstore
    /\ UNCHANGED <<verInfo, tmpl, delivered, pstore, pcache, prv, rstore, creates, invokes, inv>>

----------------------------------------------------------------------------
\* The scheduler: at most one invocation in flight per template; the snapshot it
\* hands over comes from the template informer, so it may lag the store but never
\* goes back; the same snapshot may be delivered again

OpsFor(v) == IF verInfo[v].deleting THEN {"Remove"} ELSE {"Create", "Updated"}

\* The scheduler may hand snapshot v of template t to operation op
Invoke(t, op, v) ==
    /\ inv[t].pc \in {"idle", "done"}
    /\ invokes = Unbounded \/ invokes < MaxInvokes
    /\ verInfo[v].name = t /\ v >= delivered[t]
    /\ op \in OpsFor(v)

\* The result of the invocation before this one, when it was the same operation on
\* the same snapshot of the template; "none" otherwise
Previous(t, op, v) ==
    IF inv[t].pc = "done" /\ inv[t].op = op /\ inv[t].obj.resourceVersion = v
    THEN inv[t].result ELSE "none"

\* Updated is invoked a second time in succession with the same template, after it
\* returned without error
Again(t, op, v) == op = "Updated" /\ Previous(t, op, v) = "ok"

\* The invocation as it starts: obj is the snapshot; of the previous invocation for
\* the template only what the next one is compared with is kept
Start(t, op, v) ==
    [Idle EXCEPT !.op = op, !.obj = Snapshot(v),
                 !.looked = IF Again(t, op, v) THEN inv[t].looked ELSE <<>>,
                 !.prev = Previous(t, op, v)]

\* The scheduler's bookkeeping when the invocation starts
Begin(t, v) ==
    /\ delivered' = [delivered EXCEPT ![t] = v]
    /\ invokes' = IF invokes = Unbounded THEN Unbounded ELSE invokes + 1

\* return value, error
Return(rec, ret, result, cause) ==
    [rec EXCEPT !.pc = "done", !.ret = ret, !.result = result, !.cause = cause]

----------------------------------------------------------------------------
\* Lifecycle.Create

\* A Create that looks the template's policies up as Updated does
CreateWithLookup(t, v) ==
    /\ Invoke(t, "Create", v) /\ Begin(t, v)
    /\ \E policies \in Orderings(PolicyByIndex(t)) :
         inv' = [inv EXCEPT ![t] =
                   Return([Start(t, "Create", v) EXCEPT !.looked = policies], "nil", "ok", "none")]
    /\ UNCHANGED <<verInfo, tmpl, pstore, pcache, prv, rstore, rcache, creates>>

Create(t, v) ==
    /\ Invoke(t, "Create", v) /\ Begin(t, v)
    /\ inv' = [inv EXCEPT ![t] = Return(Start(t, "Create", v), "nil", "ok", "none")]
    /\ UNCHANGED <<verInfo, tmpl, pstore, pcache, prv, rstore, rcache, creates>>

----------------------------------------------------------------------------
\* The API server's answer to the calls the handler makes

\* A write that carries no resourceVersion and so is never refused as a conflict
UpdateOutcomeUnconditional(newPolicy) ==
    IF pstore[newPolicy.name] = NoPolicy THEN "notfound" ELSE "ok"

\* policies.Update(newPolicy): the write carries the resourceVersion of the copy it was
\* made from; an absent object is not created
UpdateOutcome(newPolicy) ==
    IF pstore[newPolicy.name] = NoPolicy THEN "notfound"
    ELSE IF pstore[newPolicy.name].rv # newPolicy.rv THEN "conflict"
    ELSE "ok"

\* The object the API server stores for an accepted write
Stored(newPolicy) == [newPolicy EXCEPT !.rv = prv[newPolicy.name] + 1]

\* policies.Delete(name, &DeleteOptions{}): no precondition; an absent object is an error
DeleteOutcome(name) == IF pstore[name] = NoPolicy THEN "notfound" ELSE "ok"

\* clusterRoles.DeleteNamespaced(namespace, name, &DeleteOptions{})
DeleteRoleOutcome(name) == IF rstore[name] = NoRole THEN "notfound" ELSE "ok"

----------------------------------------------------------------------------
\* Lifecycle.Updated

\* The comparison the wrong way round
NeedsUpdateInverted(policy, obj) == policy.srcVer = obj.resourceVersion

\* if policy.Annotations[versionAnnotation] != obj.ResourceVersion
NeedsUpdate(policy, obj) == policy.srcVer # obj.resourceVersion

\* The copy gets the version stamp but not the template's spec
NewPolicyWithoutSpec(policy, obj) ==
    [policy EXCEPT !.srcVer = obj.resourceVersion]

\* The copy gets the template's spec but not the version stamp
NewPolicyWithoutVersion(policy, obj) ==
    [policy EXCEPT !.spec = obj.spec]

\* The copy's annotations are replaced by the version stamp alone
NewPolicyFreshAnnotations(policy, obj) ==
    [policy EXCEPT !.spec = obj.spec, !.srcVer = obj.resourceVersion, !.parent = NoParent]

\* newPolicy := policy.DeepCopy(); newPolicy.Spec = obj.Spec;
\* newPolicy.Annotations[versionAnnotation] = obj.ResourceVersion
NewPolicy(policy, obj) ==
    [policy EXCEPT !.spec = obj.spec, !.srcVer = obj.resourceVersion]

\* A handler that creates the policy when the update finds none
WrittenOrCreated(newPolicy) ==
    IF UpdateOutcome(newPolicy) \in {"ok", "notfound"}
    THEN [pstore EXCEPT ![newPolicy.name] = Stored(newPolicy)]
    ELSE pstore

\* _, err = l.policies.Update(newPolicy): the policies in the API server after the call
Written(newPolicy) ==
    IF UpdateOutcome(newPolicy) = "ok"
    THEN [pstore EXCEPT ![newPolicy.name] = Stored(newPolicy)]
    ELSE pstore

\* The policy the loop is at
Current(t) == inv[t].looked[inv[t].idx]

\* The second lookup sees exactly what the previous successful Updated left behind:
\* each policy is one the previous call skipped, or the object it wrote
SeesPrevious(prev, obj, now) ==
    \A i \in 1..Len(now) : \E j \in 1..Len(prev) :
        /\ prev[j].name = now[i].name
        /\ \/ now[i] = prev[j] /\ ~NeedsUpdate(prev[j], obj)
           \/ NeedsUpdate(prev[j], obj) /\ now[i].rv = prev[j].rv + 1

\* The loop ends after its first policy
NextPolicyBreak(rec) ==
    [rec EXCEPT !.pc = "done", !.ret = "obj", !.result = "ok"]

\* The loop moves to the next policy, or the handler returns obj, nil
NextPolicy(rec) ==
    IF rec.idx = Len(rec.looked)
    THEN [rec EXCEPT !.pc = "done", !.ret = "obj", !.result = "ok"]
    ELSE [rec EXCEPT !.idx = rec.idx + 1]

UpdatedLookup(t, v) ==
    /\ Invoke(t, "Updated", v) /\ Begin(t, v)
    /\ \E policies \in Orderings(PolicyByIndex(t)) :
         LET call == Start(t, "Updated", v)
             rec == [call EXCEPT !.looked = policies, !.idx = 0, !.pc = "policies",
                        !.repeat = call.prev = "ok"
                                   /\ SeesPrevious(call.looked, call.obj, policies)]
         IN inv' = [inv EXCEPT ![t] = NextPolicy(rec)]
    /\ UNCHANGED <<verInfo, tmpl, pstore, pcache, prv, rstore, rcache, creates>>

UpdatedLookupFail(t, v) ==
    /\ Invoke(t, "Updated", v) /\ Begin(t, v)
    /\ inv' = [inv EXCEPT ![t] =
                 Return(Start(t, "Updated", v), "nil", "error getting policies", "lookup")]
    /\ UNCHANGED <<verInfo, tmpl, pstore, pcache, prv, rstore, rcache, creates>>

UpdatedSkip(t) ==
    /\ inv[t].pc = "policies" /\ inv[t].op = "Updated"
    /\ ~NeedsUpdate(Current(t), inv[t].obj)
    /\ inv' = [inv EXCEPT ![t] = NextPolicy(inv[t])]
    /\ UNCHANGED <<verInfo, tmpl, delivered, pstore, pcache, prv, rstore, rcache, creates, invokes>>

\* Without DeepCopy: spec and version stamp are set on the cached object itself
UpdatedWriteInPlace(t) ==
    /\ inv[t].pc = "policies" /\ inv[t].op = "Updated"
    /\ NeedsUpdate(Current(t), inv[t].obj)
    /\ LET newPolicy == NewPolicy(Current(t), inv[t].obj)
           outcome == UpdateOutcome(newPolicy)
           rec == [inv[t] EXCEPT !.writes = inv[t].writes + 1]
       IN /\ pcache' = [pcache EXCEPT ![newPolicy.name] = newPolicy]
          /\ pstore' = Written(newPolicy)
          /\ prv' = [q \in PolicyNames |-> IF pstore'[q] = NoPolicy THEN prv[q] ELSE pstore'[q].rv]
          /\ inv' = [inv EXCEPT ![t] =
                       IF outcome = "ok" THEN NextPolicy(rec)
                       ELSE Return(rec, "nil", "error updating psp", outcome)]
    /\ UNCHANGED <<verInfo, tmpl, delivered, rstore, rcache, creates, invokes>>

UpdatedWrite(t) ==
    /\ inv[t].pc = "policies" /\ inv[t].op = "Updated"
    /\ NeedsUpdate(Current(t), inv[t].obj)
    /\ LET newPolicy == NewPolicy(Current(t), inv[t].obj)
           outcome == UpdateOutcome(newPolicy)
           rec == [inv[t] EXCEPT !.writes = inv[t].writes + 1]
       IN /\ pstore' = Written(newPolicy)
          /\ prv' = [q \in PolicyNames |-> IF pstore'[q] = NoPolicy THEN prv[q] ELSE pstore'[q].rv]
          /\ inv' = [inv EXCEPT ![t] =
                       IF outcome = "ok" THEN NextPolicy(rec)
                       ELSE Return(rec, "nil", "error updating psp", outcome)]
    /\ UNCHANGED <<verInfo, tmpl, delivered, pcache, rstore, rcache, creates, invokes>>

\* The failed call is passed over and the loop goes on
UpdatedWriteFailContinue(t) ==
    /\ inv[t].pc = "policies" /\ inv[t].op = "Updated"
    /\ NeedsUpdate(Current(t), inv[t].obj)
    /\ inv' = [inv EXCEPT ![t] =
                 NextPolicy([inv[t] EXCEPT !.writes = inv[t].writes + 1,
                                           !.cause = "transient"])]
    /\ UNCHANGED <<verInfo, tmpl, delivered, pstore, pcache, prv, rstore, rcache, creates, invokes>>

\* The call fails for another reason (time-out, permission): nothing is written
UpdatedWriteFail(t) ==
    /\ inv[t].pc = "policies" /\ inv[t].op = "Updated"
    /\ NeedsUpdate(Current(t), inv[t].obj)
    /\ inv' = [inv EXCEPT ![t] =
                 Return([inv[t] EXCEPT !.writes = inv[t].writes + 1],
                        "nil", "error updating psp", "transient")]
    /\ UNCHANGED <<verInfo, tmpl, delivered, pstore, pcache, prv, rstore, rcache, creates, invokes>>

----------------------------------------------------------------------------
\* Lifecycle.Remove

\* The cluster role lookup comes after the first policy
NextPolicyToDeleteBreak(rec) ==
    IF rec.idx >= 1 \/ rec.idx = Len(rec.looked)
    THEN [rec EXCEPT !.pc = "rolelookup"]
    ELSE [rec EXCEPT !.idx = rec.idx + 1]

\* After the policy loop comes the cluster role lookup
NextPolicyToDelete(rec) ==
    IF rec.idx = Len(rec.looked)
    THEN [rec EXCEPT !.pc = "rolelookup"]
    ELSE [rec EXCEPT !.idx = rec.idx + 1]

\* After the cluster role loop the handler returns obj, nil
NextRoleToDelete(rec) ==
    IF rec.ridx = Len(rec.rlooked)
    THEN [rec EXCEPT !.pc = "done", !.ret = "obj", !.result = "ok"]
    ELSE [rec EXCEPT !.ridx = rec.ridx + 1]

RemoveLookup(t, v) ==
    /\ Invoke(t, "Remove", v) /\ Begin(t, v)
    /\ \E policies \in Orderings(PolicyByIndex(t)) :
         inv' = [inv EXCEPT ![t] =
                   NextPolicyToDelete([Start(t, "Remove", v) EXCEPT
                                         !.looked = policies, !.idx = 0, !.pc = "policies"])]
    /\ UNCHANGED <<verInfo, tmpl, pstore, pcache, prv, rstore, rcache, creates>>

RemoveLookupFail(t, v) ==
    /\ Invoke(t, "Remove", v) /\ Begin(t, v)
    /\ inv' = [inv EXCEPT ![t] =
                 Return(Start(t, "Remove", v), "nil", "error getting policies", "lookup")]
    /\ UNCHANGED <<verInfo, tmpl, pstore, pcache, prv, rstore, rcache, creates>>

RemoveDeletePolicy(t) ==
    /\ inv[t].pc = "policies" /\ inv[t].op = "Remove"
    /\ LET name == Current(t).name
           outcome == DeleteOutcome(name)
       IN IF outcome = "ok"
          THEN /\ pstore' = [pstore EXCEPT ![name] = NoPolicy]
               /\ inv' = [inv EXCEPT ![t] =
                            NextPolicyToDelete([inv[t] EXCEPT
                                                  !.deleted = inv[t].deleted \cup {name}])]
          ELSE /\ inv' = [inv EXCEPT ![t] =
                            Return(inv[t], "nil", "error deleting policy", outcome)]
               /\ UNCHANGED pstore
    /\ UNCHANGED <<verInfo, tmpl, delivered, pcache, prv, rstore, rcache, creates, invokes>>

RemoveDeletePolicyFail(t) ==
    /\ inv[t].pc = "policies" /\ inv[t].op = "Remove"
    /\ inv' = [inv EXCEPT ![t] = Return(inv[t], "nil", "error deleting policy", "transient")]
    /\ UNCHANGED <<verInfo, tmpl, delivered, pstore, pcache, prv, rstore, rcache, creates, invokes>>

RemoveRoleLookup(t) ==
    /\ inv[t].pc = "rolelookup" /\ inv[t].op = "Remove"
    /\ \E clusterRoles \in Orderings(RoleByIndex(inv[t].obj.name)) :
         inv' = [inv EXCEPT ![t] =
                   NextRoleToDelete([inv[t] EXCEPT !.rlooked = clusterRoles, !.ridx = 0,
                                                   !.pc = "roles"])]
    /\ UNCHANGED <<verInfo, tmpl, delivered, pstore, pcache, prv, rstore, rcache, creates, invokes>>

RemoveRoleLookupFail(t) ==
    /\ inv[t].pc = "rolelookup" /\ inv[t].op = "Remove"
    /\ inv' = [inv EXCEPT ![t] = Return(inv[t], "nil", "error getting cluster roles", "lookup")]
    /\ UNCHANGED <<verInfo, tmpl, delivered, pstore, pcache, prv, rstore, rcache, creates, invokes>>

RemoveDeleteRole(t) ==
    /\ inv[t].pc = "roles" /\ inv[t].op = "Remove"
    /\ LET name == inv[t].rlooked[inv[t].ridx]
           outcome == DeleteRoleOutcome(name)
       IN IF outcome = "ok"
          THEN /\ rstore' = [rstore EXCEPT ![name] = NoRole]
               /\ inv' = [inv EXCEPT ![t] =
                            NextRoleToDelete([inv[t] EXCEPT
                                                !.deleted = inv[t].deleted \cup {name}])]
          ELSE /\ inv' = [inv EXCEPT ![t] =
                            Return(inv[t], "nil", "error deleting cluster role", outcome)]
               /\ UNCHANGED rstore
    /\ UNCHANGED <<verInfo, tmpl, delivered, pstore, pcache, prv, rcache, creates, invokes>>

RemoveDeleteRoleFail(t) ==
    /\ inv[t].pc = "roles" /\ inv[t].op = "Remove"
    /\ inv' = [inv EXCEPT ![t] = Return(inv[t], "nil", "error deleting cluster role", "transient")]
    /\ UNCHANGED <<verInfo, tmpl, delivered, pstore, pcache, prv, rstore, rcache, creates, invokes>>

----------------------------------------------------------------------------
\* The specification

\* One step of the handler for template t; the first step of an invocation takes
\* the snapshot v the scheduler delivers
Handler(t) ==
    \/ \E v \in 1..MaxVersion :
          \/ Create(t, v)
          \/ UpdatedLookup(t, v) \/ UpdatedLookupFail(t, v)
          \/ RemoveLookup(t, v) \/ RemoveLookupFail(t, v)
    \/ UpdatedSkip(t) \/ UpdatedWrite(t) \/ UpdatedWriteFail(t)
    \/ RemoveDeletePolicy(t) \/ RemoveDeletePolicyFail(t)
    \/ RemoveRoleLookup(t) \/ RemoveRoleLookupFail(t)
    \/ RemoveDeleteRole(t) \/ RemoveDeleteRoleFail(t)

Environment ==
    \/ \E t \in Templates, s \in SpecVals : TemplateEdit(t, s) \/ TemplateCreate(t, s)
    \/ \E t \in Templates : TemplateDelete(t) \/ Finalize(t)
    \/ \E p \in PolicyNames, parent \in Templates \cup {NoParent}, v \in 0..MaxVersion :
          ExternalCreatePolicy(p, parent, v)
    \/ \E r \in RoleNames, parent \in Templates \cup {NoParent} : ExternalCreateRole(r, parent)
    \/ PolicyCacheSync
    \/ RoleCacheSync

Next == Environment \/ \E t \in Templates : Handler(t)

Spec == Init /\ [][Next]_vars

----------------------------------------------------------------------------
\* The specification with the scheduling the liveness properties rest on: invocations
\* are not counted, the informers deliver, the scheduler keeps handing the current
\* snapshot of a template in the store to Updated or Remove, an invocation runs to its
\* return, and a call that is made again and again is not failed from outside for ever

LiveInit ==
    /\ verInfo = [v \in 1..MaxVersion |->
                    IF v = 1 THEN [name |-> "t1", spec |-> "privileged", deleting |-> FALSE]
                    ELSE IF v = 2 THEN [name |-> "t2", spec |-> "privileged", deleting |-> FALSE]
                    ELSE NoVer]
    /\ tmpl = [t \in Templates |-> IF t = "t1" THEN 1 ELSE 2]
    /\ delivered = [t \in Templates |-> IF t = "t1" THEN 1 ELSE 2]
    /\ pstore = [p \in PolicyNames |-> NoPolicy]
    /\ pcache = [p \in PolicyNames |-> NoPolicy]
    /\ prv = [p \in PolicyNames |-> 0]
    /\ rstore = [r \in RoleNames |-> NoRole]
    /\ rcache = [r \in RoleNames |-> NoRole]
    /\ creates = 0
    /\ invokes = Unbounded
    /\ inv = [t \in Templates |-> Idle]

\* The template LiveSpec follows
Watched == "t1"

\* The scheduler hands the template as it is in the store to the handler
UpdatedCurrent(t) == \E v \in 1..MaxVersion : v = tmpl[t] /\ UpdatedLookup(t, v)
RemoveCurrent(t) == \E v \in 1..MaxVersion : v = tmpl[t] /\ RemoveLookup(t, v)

\* The handler goes on to its next call or returns
Step(t) ==
    \/ UpdatedSkip(t) \/ UpdatedWrite(t) \/ UpdatedWriteFail(t)
    \/ RemoveDeletePolicy(t) \/ RemoveDeletePolicyFail(t)
    \/ RemoveRoleLookup(t) \/ RemoveRoleLookupFail(t)
    \/ RemoveDeleteRole(t) \/ RemoveDeleteRoleFail(t)

Fairness ==
    /\ WF_vars(PolicyCacheSync)
    /\ WF_vars(RoleCacheSync)
    /\ \A t \in {Watched} :
         /\ WF_vars(Step(t))
         /\ WF_vars(Finalize(t))
         /\ SF_vars(UpdatedCurrent(t))
         /\ SF_vars(RemoveCurrent(t))
         /\ SF_vars(UpdatedWrite(t))
         /\ SF_vars(RemoveDeletePolicy(t))
         /\ SF_vars(RemoveRoleLookup(t))
         /\ SF_vars(RemoveDeleteRole(t))

\* The steps of LiveSpec: the environment and the handler of one template, with the
\* calls to the API server failing or not; Create and the index lookups' errors, which
\* change nothing, are left out
LiveEnvironment ==
    \/ \E s \in SpecVals : TemplateEdit(Watched, s) \/ TemplateCreate(Watched, s)
    \/ TemplateDelete(Watched) \/ Finalize(Watched)
    \/ \E p \in PolicyNames, v \in 1..MaxVersion : ExternalCreatePolicy(p, Watched, v)
    \/ \E r \in RoleNames : ExternalCreateRole(r, Watched)
    \/ PolicyCacheSync
    \/ RoleCacheSync

LiveHandler ==
    \/ \E v \in 1..MaxVersion : UpdatedLookup(Watched, v) \/ RemoveLookup(Watched, v)
    \/ Step(Watched)

LiveNext == LiveEnvironment \/ LiveHandler

LiveSpec == LiveInit /\ [][LiveNext]_vars /\ Fairness

----------------------------------------------------------------------------
\* Properties

Done(t, op) == inv[t].pc = "done" /\ inv[t].op = op
Parented(t) == {p \in PolicyNames : pstore[p] # NoPolicy /\ pstore[p].parent = t}
ParentedRoles(t) == {r \in RoleNames : rstore[r] = t}

\* C1: when Updated(T) returns without error, every policy its index lookup returned
\* with a source-version other than T's resourceVersion has, in the API server, T's spec
\* and source-version = T's resourceVersion (unless the policy has since been deleted
\* or created anew under the name).
C1_Convergence ==
    \A t \in Templates :
        Done(t, "Updated") /\ inv[t].result = "ok" =>
            \A i \in 1..Len(inv[t].looked) :
                LET e == inv[t].looked[i]
                    s == pstore[e.name]
                IN NeedsUpdate(e, inv[t].obj) /\ s # NoPolicy /\ s.rv <= e.rv + 1 =>
                       s.spec = inv[t].obj.spec /\ s.srcVer = inv[t].obj.resourceVersion

\* Two stale policies of one template, both brought to the template's spec and version
C1_Witness ==
    \E t \in Templates :
        /\ Done(t, "Updated") /\ inv[t].result = "ok" /\ Len(inv[t].looked) = 2
        /\ \A i \in 1..2 :
             LET e == inv[t].looked[i]
             IN /\ NeedsUpdate(e, inv[t].obj) /\ e.spec # inv[t].obj.spec
                /\ pstore[e.name] = [e EXCEPT !.spec = inv[t].obj.spec,
                                              !.srcVer = inv[t].obj.resourceVersion,
                                              !.rv = e.rv + 1]

C3_CascadeComplete ==
    \A t \in Templates :
        Done(t, "Remove") =>
            /\ inv[t].result = "ok" /\ ~Live(t) =>
                   Parented(t) = {} /\ ParentedRoles(t) = {}
            /\ inv[t].prev = "ok" /\ inv[t].cause \notin {"transient", "lookup"} =>
                   inv[t].result = "ok" /\ inv[t].deleted = {}

\* C4: when a policy deletion failed in Remove(T), the retry of Remove(T) deletes what
\* is left and returns without error; the policies already deleted are no obstacle.
C4_RetryCompletes ==
    \A t \in Templates :
        /\ Done(t, "Remove") /\ inv[t].prev = "error deleting policy"
        /\ inv[t].cause \notin {"transient", "lookup"}
        => inv[t].result = "ok"

\* C5: a deletion of an object that is already gone does not make Remove return an error.
C5_NotFoundTolerated ==
    \A t \in Templates : inv[t].op = "Remove" => inv[t].cause # "notfound"

\* C8: an Updated invoked with an older snapshot of the template does not take a policy
\* back from the version it is synchronized with to the older one.
C8_NoRegression ==
    [][\A p \in PolicyNames :
          /\ pstore[p] # NoPolicy /\ pstore'[p] # NoPolicy
          /\ pstore'[p].rv = pstore[p].rv + 1
          /\ pstore[p].srcVer # 0 /\ verInfo[pstore[p].srcVer].name = pstore[p].parent
          => pstore'[p].srcVer >= pstore[p].srcVer]_vars

\* C9: a policy whose source-version annotation is version V of its parent template
\* has the spec the template had at version V.
C9_NoMismatchedSynced ==
    \A p \in PolicyNames :
        /\ pstore[p] # NoPolicy /\ pstore[p].parent # NoParent /\ pstore[p].srcVer # 0
        /\ verInfo[pstore[p].srcVer].name = pstore[p].parent
        => pstore[p].spec = verInfo[pstore[p].srcVer].spec

\* An Updated that failed after it had written one of two policies whose spec differed
C9_Witness ==
    \E t \in Templates :
        /\ Done(t, "Updated") /\ inv[t].result = "error updating psp"
        /\ Len(inv[t].looked) = 2 /\ inv[t].idx = 2
        /\ LET e == inv[t].looked[1]
           IN /\ e.spec # inv[t].obj.spec
              /\ pstore[e.name].srcVer = inv[t].obj.resourceVersion
              /\ pstore[e.name].spec = inv[t].obj.spec
              /\ pstore[e.name].rv = e.rv + 1

\* C10: a policy or cluster role name appears in the API server only in a step of the
\* external collaborator, never in a step of Create, Updated or Remove.
C10_NeverCreates ==
    [][/\ \A p \in PolicyNames :
            pstore[p] = NoPolicy /\ pstore'[p] # NoPolicy => creates' = creates + 1
       /\ \A r \in RoleNames :
            rstore[r] = NoRole /\ rstore'[r] # NoRole => creates' = creates + 1]_vars

\* An Updated that ran with a stale index found the policy gone, and the policy is
\* still gone
C10_Witness ==
    \E t \in Templates :
        /\ Done(t, "Updated") /\ inv[t].cause = "notfound"
        /\ pstore[Current(t).name] = NoPolicy

\* Every policy of live template t in the API server mirrors the template as it is now
Converged(t) ==
    Live(t) => \A p \in Parented(t) :
                   /\ pstore[p].spec = verInfo[tmpl[t]].spec
                   /\ pstore[p].srcVer = tmpl[t]

C7_EventualCascade ==
    /\ \A p \in PolicyNames :
         (Deleting(Watched) /\ p \in Parented(Watched)) ~> (p \notin Parented(Watched))
    /\ \A r \in RoleNames :
         (Deleting(Watched) /\ r \in ParentedRoles(Watched)) ~> (r \notin ParentedRoles(Watched))
    /\ Deleting(Watched) ~> (Done(Watched, "Remove") /\ inv[Watched].result = "ok")

\* The step is the start of an invocation of op for template t
Starts(t, op) ==
    /\ invokes' = invokes + 1 /\ inv'[t].op = op
    /\ inv'[t] # inv[t] \/ inv' = inv

\* C11 as stated: Create looks nothing up, reads, writes and deletes nothing, leaves
\* every policy and cluster role as it is and returns the template it was given with
\* no error.
C11_CreateReturnsTemplate ==
    [][\A t \in Templates :
          Starts(t, "Create") =>
              /\ pstore' = pstore /\ rstore' = rstore /\ pcache' = pcache /\ rcache' = rcache
              /\ inv'[t].looked = <<>> /\ inv'[t].rlooked = <<>>
              /\ inv'[t].writes = 0 /\ inv'[t].deleted = {}
              /\ inv'[t].pc = "done" /\ inv'[t].result = "ok" /\ inv'[t].ret = "obj"]_vars

\* C11 amended: Create looks nothing up, reads, writes and deletes nothing, leaves
\* every policy and cluster role as it is and returns no object (nil) with no error.
C11_CreateNoOp ==
    [][\A t \in Templates :
          Starts(t, "Create") =>
              /\ pstore' = pstore /\ rstore' = rstore /\ pcache' = pcache /\ rcache' = rcache
              /\ inv'[t].looked = <<>> /\ inv'[t].rlooked = <<>>
              /\ inv'[t].writes = 0 /\ inv'[t].deleted = {}
              /\ inv'[t].pc = "done" /\ inv'[t].result = "ok" /\ inv'[t].ret = "nil"]_vars

\* Create has returned for a template that has a stale policy and a cluster role in
\* the index
C11_Witness ==
    \E t \in Templates :
        /\ Done(t, "Create") /\ inv[t].ret = "nil" /\ inv[t].result = "ok"
        /\ \E e \in PolicyByIndex(t) : NeedsUpdate(e, inv[t].obj) /\ pstore[e.name] = e
        /\ RoleByIndex(t) # {} /\ ParentedRoles(t) # {}

\* The keys a lookup is made with: the template names and the empty key
Keys == Templates \cup {NoParent}

\* C12: in both indices a cached object with parent annotation k, k not empty, has the
\* one key k and is in the lookup of k and of no other key, the empty key included; an
\* object with no or an empty parent annotation, or of the other type, has no key and
\* is in no lookup.
C12_IndexCorrect ==
    /\ \A p \in PolicyNames :
         pcache[p] # NoPolicy =>
             /\ policyByPSPTParentAnnotation(pcache[p]) =
                    IF pcache[p].parent = NoParent THEN <<>> ELSE <<pcache[p].parent>>
             /\ clusterRoleByPSPTName(pcache[p]) = <<>>
             /\ \A key \in Keys :
                    pcache[p] \in PolicyByIndex(key) <=>
                        (pcache[p].parent # NoParent /\ key = pcache[p].parent)
    /\ \A r \in RoleNames :
         rcache[r] # NoRole =>
             /\ clusterRoleByPSPTName(CachedRole(r)) =
                    IF rcache[r] = NoParent THEN <<>> ELSE <<rcache[r]>>
             /\ policyByPSPTParentAnnotation(CachedRole(r)) = <<>>
             /\ \A key \in Keys :
                    r \in RoleByIndex(key) <=> (rcache[r] # NoParent /\ key = rcache[r])

\* The cache holds a policy with a parent, found under that key, and a policy without
\* one, found under no key
C12_Witness ==
    /\ \E p, q \in PolicyNames :
         /\ pcache[p] # NoPolicy /\ pcache[p].parent \in Templates
         /\ pcache[p] \in PolicyByIndex(pcache[p].parent)
         /\ pcache[q] # NoPolicy /\ pcache[q].parent = NoParent
         /\ \A key \in Keys : pcache[q] \notin PolicyByIndex(key)

\* The number of Update calls Updated has made when its loop is at the idx-th policy
\* and has made one call for each policy up to there that needed it
CallsUpTo(rec) ==
    Cardinality({i \in 1..rec.idx : NeedsUpdate(rec.looked[i], rec.obj)})

\* C13: an Updated whose lookup failed returns an error and has made no write; an
\* Updated in which a write failed returns an error, has made one call for each policy
\* up to the failed one and none after it, and what it wrote before is in the API server.
C13_AbortOnFailure ==
    \A t \in Templates :
        inv[t].op = "Updated" =>
            /\ inv[t].cause # "none" =>
                   Done(t, "Updated") /\ inv[t].result # "ok" /\ inv[t].ret = "nil"
            /\ inv[t].cause = "lookup" =>
                   inv[t].result = "error getting policies" /\ inv[t].idx = 0
            /\ inv[t].pc = "done" /\ inv[t].result # "ok" =>
                   /\ inv[t].writes = CallsUpTo(inv[t])
                   /\ inv[t].cause # "lookup" =>
                          /\ inv[t].result = "error updating psp" /\ inv[t].idx >= 1
                          /\ NeedsUpdate(Current(t), inv[t].obj)
                   /\ \A i \in 1..(inv[t].idx - 1) :
                          LET e == inv[t].looked[i]
                              s == pstore[e.name]
                          IN NeedsUpdate(e, inv[t].obj) /\ s # NoPolicy /\ s.rv <= e.rv + 1 =>
                                 s = [e EXCEPT !.spec = inv[t].obj.spec,
                                               !.srcVer = inv[t].obj.resourceVersion,
                                               !.rv = e.rv + 1]

\* An Updated wrote the first of two policies, was refused the second with a conflict
\* and returned the error; the first policy is as written, the second untouched by it
C13_Witness ==
    \E t \in Templates :
        /\ Done(t, "Updated") /\ inv[t].cause = "conflict" /\ inv[t].ret = "nil"
        /\ Len(inv[t].looked) = 2 /\ inv[t].idx = 2 /\ inv[t].writes = 2
        /\ pstore[inv[t].looked[1].name].rv = inv[t].looked[1].rv + 1
        /\ pstore[inv[t].looked[1].name].srcVer = inv[t].obj.resourceVersion

\* C14: within one Remove every policy deletion comes before the cluster role lookup
\* and before any cluster role deletion; when the policy lookup or a policy deletion
\* failed, the invocation has looked up and deleted no cluster role.
C14_PoliciesBeforeRoles ==
    \A t \in Templates :
        inv[t].op = "Remove" =>
            /\ inv[t].pc = "policies"
                  \/ inv[t].result \in {"error getting policies", "error deleting policy"}
               => inv[t].rlooked = <<>> /\ inv[t].ridx = 0
                  /\ inv[t].deleted \cap RoleNames = {}
            /\ inv[t].pc \in {"rolelookup", "roles"}
                  \/ inv[t].rlooked # <<>> \/ inv[t].deleted \cap RoleNames # {}
                  \/ inv[t].result \in {"ok", "error getting cluster roles",
                                         "error deleting cluster role"}
               => inv[t].idx = Len(inv[t].looked)

\* A Remove stopped at a failed policy deletion while the template had a cluster role
\* in the index; the cluster role is still in the API server
C14_Witness ==
    \E t \in Templates :
        /\ Done(t, "Remove") /\ inv[t].result = "error deleting policy"
        /\ RoleByIndex(t) # {} /\ ParentedRoles(t) # {}
        /\ inv[t].rlooked = <<>>

\* C15: no step of Create, Updated or Remove changes the informer caches the indices
\* are kept over; a cache changes only when its informer brings it up to the API
\* server, and Updated leaves the cached policy it copied as it was.
C15_CacheUntouched ==
    [][/\ inv' # inv \/ invokes' # invokes => pcache' = pcache /\ rcache' = rcache
       /\ pcache' # pcache => pcache' = pstore /\ pstore' = pstore
       /\ rcache' # rcache => rcache' = rstore /\ rstore' = rstore]_vars

\* Updated has written a policy and returned; the cache still holds the copy it read
C15_Witness ==
    \E t \in Templates :
        /\ Done(t, "Updated") /\ inv[t].result = "ok"
        /\ \E i \in 1..Len(inv[t].looked) :
             LET e == inv[t].looked[i]
             IN /\ NeedsUpdate(e, inv[t].obj) /\ pcache[e.name] = e
                /\ pstore[e.name] = [e EXCEPT !.spec = inv[t].obj.spec,
                                              !.srcVer = inv[t].obj.resourceVersion,
                                              !.rv = e.rv + 1]

\* The step is an Update call of the Updated invocation for template t
UpdateCall(t) ==
    /\ inv[t].op = "Updated" /\ inv[t].pc = "policies"
    /\ inv'[t].writes = inv[t].writes + 1

\* C16: an Update call of Updated changes the API server only when the policy stored
\* there is the very copy the lookup returned; when the stored policy has changed since,
\* the call changes nothing and Updated returns an error.
C16_NoLostUpdate ==
    [][\A t \in Templates :
          UpdateCall(t) =>
              LET e == Current(t)
              IN /\ pstore' # pstore => pstore[e.name] = e
                 /\ pstore[e.name] # e =>
                        /\ pstore' = pstore
                        /\ inv'[t].pc = "done" /\ inv'[t].ret = "nil"
                        /\ inv'[t].result = "error updating psp"]_vars

\* Updated was refused with a conflict: the stored policy is newer than the copy it
\* read and is as it was
C16_Witness ==
    \E t \in Templates :
        /\ Done(t, "Updated") /\ inv[t].cause = "conflict"
        /\ pstore[Current(t).name] # NoPolicy
        /\ pstore[Current(t).name].rv > Current(t).rv
        /\ pstore[Current(t).name].srcVer # inv[t].obj.resourceVersion

\* C19: a step of Updated for template T changes no cluster role and reads none,
\* deletes no policy, and changes a policy only by writing the template's spec and
\* version to a policy with parent T: name, parent and the rest stay.
C19_UpdateFrame ==
    [][\A t \in Templates :
          inv'[t] # inv[t] /\ inv'[t].op = "Updated" =>
              /\ rstore' = rstore /\ rcache' = rcache /\ pcache' = pcache
              /\ inv'[t].rlooked = <<>> /\ inv'[t].deleted = {}
              /\ \A p \in PolicyNames :
                     pstore'[p] # pstore[p] =>
                         /\ pstore[p] # NoPolicy /\ pstore[p].parent = t
                         /\ pstore'[p] = [pstore[p] EXCEPT !.spec = inv'[t].obj.spec,
                                                           !.srcVer = inv'[t].obj.resourceVersion,
                                                           !.rv = pstore[p].rv + 1]]_vars

\* Updated has written the policy of its template and returned, and a stale policy
\* that is not the template's, cached as well, has not been written
C19_Witness ==
    \E t \in Templates :
        /\ Done(t, "Updated") /\ inv[t].result = "ok" /\ inv[t].writes = 1
        /\ \E q \in PolicyNames :
             /\ pstore[q] # NoPolicy /\ pstore[q].parent # t /\ pcache[q] = pstore[q]
             /\ pstore[q].rv = 1 /\ pstore[q].srcVer # inv[t].obj.resourceVersion

\* The step is a call of the Remove invocation for template t that deletes policy p
DeletesPolicy(t, p) ==
    inv[t].op = "Remove" /\ p \in inv'[t].deleted \ inv[t].deleted /\ pstore[p] # NoPolicy

\* The step is a call of the Remove invocation for template t that deletes cluster role r
DeletesRole(t, r) ==
    inv[t].op = "Remove" /\ r \in inv'[t].deleted \ inv[t].deleted /\ rstore[r] # NoRole

\* C17 as stated: Remove(T) deletes a policy or cluster role only when its parent
\* annotation in the API server, at the moment of the call, is T, also when the index
\* it read is stale.
C17_DeletesOnlyOwn ==
    [][\A t \in Templates :
          /\ \A p \in PolicyNames : DeletesPolicy(t, p) => pstore[p].parent = t
          /\ \A r \in RoleNames : DeletesRole(t, r) => rstore[r] = t]_vars

\* C17 amended: Remove(T) deletes, by name, only what its index lookups returned for
\* T: a policy whose cached copy had parent T, a cluster role cached with parent T at
\* the lookup; nothing else leaves the API server in the step.
C17_DeletesListed ==
    [][\A t \in Templates :
          /\ \A p \in PolicyNames :
                DeletesPolicy(t, p) =>
                    /\ inv[t].pc = "policies"
                    /\ p = Current(t).name /\ Current(t).parent = t
                    /\ rstore' = rstore
                    /\ \A q \in PolicyNames \ {p} : pstore'[q] = pstore[q]
          /\ \A r \in RoleNames :
                DeletesRole(t, r) =>
                    /\ inv[t].pc = "roles"
                    /\ r = inv[t].rlooked[inv[t].ridx]
                    /\ pstore' = pstore
                    /\ \A q \in RoleNames \ {r} : rstore'[q] = rstore[q]
          /\ inv[t].op = "Remove" /\ inv[t].pc = "rolelookup" /\ inv'[t] # inv[t] =>
                \A r \in Range(inv'[t].rlooked) : rcache[r] = t]_vars

\* A Remove that read a stale index has deleted a policy made anew under the name
\* with another parent or none: the template is still being deleted, the only two
\* invocations were Remove for it, the name has been given a later resourceVersion
\* than the cached copy's, and the policy is gone
C17_Witness ==
    \E t \in Templates :
        /\ Done(t, "Remove") /\ Deleting(t) /\ inv[t].prev # "none" /\ invokes = 2
        /\ \E i \in 1..Len(inv[t].looked) :
             LET e == inv[t].looked[i]
             IN /\ e.name \in inv[t].deleted /\ e.parent = t
                /\ prv[e.name] > e.rv /\ pstore[e.name] = NoPolicy

\* The step is a call of the invocation in flight for template t
CallOf(t) == inv'[t] # inv[t] /\ inv[t].pc \in {"policies", "roles"}

\* C18 as stated: a call of an invocation for T1 changes or deletes no policy and no
\* cluster role that is stored or indexed under another template T2.
C18_NeverAnothers ==
    [][\A t \in Templates : \A u \in Templates \ {t} :
          CallOf(t) =>
              /\ \A p \in PolicyNames :
                    pstore'[p] # pstore[p] =>
                        /\ pstore[p].parent # u
                        /\ p \notin {e.name : e \in PolicyByIndex(u)}
              /\ \A r \in RoleNames :
                    rstore'[r] # rstore[r] => rstore[r] # u /\ r \notin RoleByIndex(u)]_vars

\* C18 amended: a call of an invocation for T1 changes or deletes only the object named
\* by the entry its own lookup returned for T1; a write of Updated changes it only when
\* it is still that entry; and while the entry is still the stored object, no invocation
\* in flight for another template has an entry of that name that is.
C18_OwnLookupOnly ==
    [][\A t \in Templates :
          CallOf(t) =>
              /\ \A p \in PolicyNames :
                    pstore'[p] # pstore[p] =>
                        /\ inv[t].pc = "policies"
                        /\ p = Current(t).name /\ Current(t).parent = t
                        /\ inv[t].op = "Updated" => pstore[p] = Current(t)
                        /\ pstore[p] = Current(t) =>
                               \A u \in Templates \ {t} :
                                   inv[u].pc = "policies" /\ Current(u).name = p
                                       => pstore[p] # Current(u)
              /\ \A r \in RoleNames :
                    rstore'[r] # rstore[r] =>
                        inv[t].pc = "roles" /\ r = inv[t].rlooked[inv[t].ridx]]_vars

\* Updated for one template has written its policy while Remove for another has
\* deleted one and is still in flight; the policy Updated wrote is as it wrote it
C18_Witness ==
    \E t \in Templates : \E u \in Templates \ {t} :
        /\ inv[t].op = "Remove" /\ inv[t].pc = "rolelookup" /\ inv[t].deleted # {}
        /\ Done(u, "Updated") /\ inv[u].result = "ok" /\ inv[u].writes = 1
        /\ pstore[inv[u].looked[1].name] =
               [inv[u].looked[1] EXCEPT !.spec = inv[u].obj.spec,
                                        !.srcVer = inv[u].obj.resourceVersion,
                                        !.rv = inv[u].looked[1].rv + 1]

====
